---- MODULE Spec2Model ----
(***************************************************************************)
(* A model of the metrics engine of Product-Analytics-Dashboard:           *)
(* ProductAnalytics (src/python_analysis.py) and the MAU query of the      *)
(* dashboard (src/dashboard_app.py).                                       *)
(*                                                                         *)
(* Encoding of values                                                      *)
(*   - a timestamp is a number of hours since 1970-01-01 00:00; a calendar *)
(*     date is a number of days since 1970-01-01; a 'YYYY-MM' month string *)
(*     is the number YYYY*100+MM (same order as the strings).              *)
(*   - a CSV text cell of a string column is a string, "" being the empty  *)
(*     cell that read_csv turns into NaN and to_sql into NULL.             *)
(*   - a nullable number (a CSV cell of a numeric/date column, an SQL      *)
(*     value that may be NULL) is <<>> for NULL and <<v>> for the value v. *)
(*   - a percentage or an average rounded to 2 decimals is held in         *)
(*     hundredths (50.0 is 5000).                                          *)
(***************************************************************************)
EXTENDS Integers, Sequences, FiniteSets, TLC

VARIABLES
    disk_users,  \* the users CSV files the caller has on disk (their contents)
    disk_events, \* the events CSV files the caller has on disk
    csv_users,   \* content of the users CSV file the last load_data read
                 \* (rows as read_csv sees them)
    csv_events,  \* content of the events CSV file the last load_data read
    users,       \* table users of the SQLite database
    events,      \* table events of the SQLite database
    loaded,      \* whether the two tables exist in the database
    tie_order,   \* the order in which the SQL engine of this connection
                 \* returns rows that are equal on the ORDER BY key
    seen,        \* history: a table some earlier call returned since the
                 \* last load, with the stored tables of that moment
    result       \* what the last call returned, or the exception it raised

vars == <<disk_users, disk_events, csv_users, csv_events, users, events,
          loaded, tie_order, seen, result>>

----------------------------------------------------------------------------
(* Bounds of the model *)

\* Largest number of rows of a users CSV file.
MaxUsers == 2

\* Largest number of rows of an events CSV file drawn from EventPalette.
MaxEvents == 3

----------------------------------------------------------------------------
(* Program constants *)

\* calculate_retention(self, days=7)
DefaultDays == 7

\* calculate_churn(self, inactive_days=30)
DefaultInactiveDays == 30

\* WHEN COUNT(e.event_id) > 100 THEN 'High'
HighThreshold == 100

\* WHEN COUNT(e.event_id) > 20 THEN 'Medium'
MediumThreshold == 20

\* Hours in a day: DATE(timestamp) drops the time of day.
HoursPerDay == 24

----------------------------------------------------------------------------
(* Calendar: what SQLite's DATE(), strftime('%Y-%m', ...) and julianday()   *)
(* compute on the 'YYYY-MM-DD HH:MM:SS' text pandas stores.                 *)

\* Days since 1970-01-01 of the proleptic Gregorian date y-m-d.
DaysFromCivil(y, m, d) ==
    LET yy  == IF m <= 2 THEN y - 1 ELSE y
        era == yy \div 400
        yoe == yy - era * 400
        mp  == IF m > 2 THEN m - 3 ELSE m + 9
        doy == (153 * mp + 2) \div 5 + d - 1
        doe == yoe * 365 + yoe \div 4 - yoe \div 100 + doy
    IN  era * 146097 + doe - 719468

\* The pair <<year, month>> of the date that is z days after 1970-01-01.
CivilFromDays(z) ==
    LET zz  == z + 719468
        era == zz \div 146097
        doe == zz - era * 146097
        yoe == (doe - doe \div 1460 + doe \div 36524 - doe \div 146096) \div 365
        doy == doe - (365 * yoe + yoe \div 4 - yoe \div 100)
        mp  == (5 * doy + 2) \div 153
        m   == IF mp < 10 THEN mp + 3 ELSE mp - 9
        y   == yoe + era * 400
    IN  <<IF m <= 2 THEN y + 1 ELSE y, m>>

\* A timestamp: y-m-d h:00:00.
Ts(y, m, d, h) == DaysFromCivil(y, m, d) * HoursPerDay + h

\* DATE(timestamp): the timestamp truncated to its day.
DateOf(ts) == ts \div HoursPerDay

\* strftime('%Y-%m', date) / Period 'M' of a date.
YearMonth(date) ==
    LET ym == CivilFromDays(date) IN ym[1] * 100 + ym[2]

\* strftime('%Y-%m', timestamp).
MonthOfTs(ts) == YearMonth(DateOf(ts))

\* DATE(first_date, '+{days} days'): the f-string puts the number after a
\* '+'; for a negative number the modifier reads '+-1 days', which SQLite
\* does not accept, and DATE() is then NULL.
SqlDatePlusDays(date, days) ==
    IF days >= 0 THEN <<date + days>> ELSE <<>>

\* julianday('2024-12-31'), as a date.
RefDate == DaysFromCivil(2024, 12, 31)

----------------------------------------------------------------------------
(* Small helpers on sets and sequences *)

\* The elements of s at the indices in I, in the order of s.
Pick(s, I) ==
    LET tagged == [i \in DOMAIN s |-> <<i, s[i]>>]
        kept   == SelectSeq(tagged, LAMBDA x : x[1] \in I)
    IN  [k \in DOMAIN kept |-> kept[k][2]]

\* The elements of the finite set S as a sequence ascending by key, a
\* function from S to numbers that takes no value twice.
SortBy(S, key) ==
    [i \in 1..Cardinality(S) |->
        CHOOSE x \in S : Cardinality({y \in S : key[y] < key[x]}) = i - 1]

\* The numbers of the finite set S in ascending order.
Ascending(S) == SortBy(S, [x \in S |-> x])

RECURSIVE SumRange(_, _, _)
\* f[lo] + ... + f[hi], by halves.
SumRange(f, lo, hi) ==
    IF lo > hi THEN 0
    ELSE IF lo = hi THEN f[lo]
    ELSE LET mid == (lo + hi) \div 2
         IN  SumRange(f, lo, mid) + SumRange(f, mid + 1, hi)

\* SUM(session_duration) over the events rows at the indices in I.
SumDuration(evs, I) ==
    SumRange([i \in DOMAIN evs |-> IF i \in I THEN evs[i].session_duration ELSE 0],
             1, Len(evs))

Max(S) == CHOOSE x \in S : \A y \in S : y <= x
Min(S) == CHOOSE x \in S : \A y \in S : x <= y

\* ROUND(100.0 * num / den, 2) in hundredths (half away from zero), den > 0.
RoundPct(num, den) == (20000 * num + den) \div (2 * den)

\* ROUND(sum / count, 2) in hundredths, count > 0.
RoundAvg(sum, count) == (200 * sum + count) \div (2 * count)

----------------------------------------------------------------------------
(* load_data: cleaning of the two CSV files *)

\* DataFrame.drop_duplicates(subset=[key]): keeps the first row of each key
\* value; missing keys count as equal to each other.
DropDuplicates(rows, key) ==
    Pick(rows, {i \in DOMAIN rows :
                    \A j \in 1..(i - 1) : rows[j][key] # rows[i][key]})

\* A missing cell of a string column: the empty text.
IsNaText(cell) == cell = ""

\* A missing cell of a numeric or date column.
IsNaNum(cell) == cell = <<>>

\* users.drop_duplicates(subset=['user_id']).dropna(subset=['user_id','signup_date'])
CleanUsers(rows) ==
    LET dedup == DropDuplicates(rows, "user_id")
        kept  == Pick(dedup, {i \in DOMAIN dedup :
                                ~IsNaText(dedup[i].user_id)
                                /\ ~IsNaNum(dedup[i].signup_date)})
    IN  [i \in DOMAIN kept |->
            [user_id     |-> kept[i].user_id,
             signup_date |-> kept[i].signup_date[1],
             plan        |-> kept[i].plan,
             country     |-> kept[i].country]]

\* events.drop_duplicates(subset=['event_id'])
\*       .dropna(subset=['event_id','user_id','timestamp']); fillna(0)
CleanEvents(rows) ==
    LET dedup == DropDuplicates(rows, "event_id")
        kept  == Pick(dedup, {i \in DOMAIN dedup :
                                ~IsNaNum(dedup[i].event_id)
                                /\ ~IsNaText(dedup[i].user_id)
                                /\ ~IsNaNum(dedup[i].timestamp)})
    IN  [i \in DOMAIN kept |->
            [event_id         |-> kept[i].event_id[1],
             user_id          |-> kept[i].user_id,
             timestamp        |-> kept[i].timestamp[1],
             feature          |-> kept[i].feature,
             session_duration |-> IF IsNaNum(kept[i].session_duration)
                                  THEN 0
                                  ELSE kept[i].session_duration[1]]]

----------------------------------------------------------------------------
(* calculate_dau_mau *)

\* COUNT(DISTINCT user_id) over the events rows at the indices in I.
DistinctUsers(evs, I) == Cardinality({evs[i].user_id : i \in I})

\* Variant of DauQuery: COUNT(user_id), without DISTINCT.
DauQuery_CountRows(evs) ==
    LET dates  == {DateOf(evs[i].timestamp) : i \in DOMAIN evs}
        sorted == Ascending(dates)
    IN  [k \in DOMAIN sorted |->
            [date |-> sorted[k],
             dau  |-> Cardinality({i \in DOMAIN evs :
                                    DateOf(evs[i].timestamp) = sorted[k]})]]

\* SELECT DATE(timestamp) as date, COUNT(DISTINCT user_id) as dau
\* FROM events GROUP BY DATE(timestamp) ORDER BY date
DauQuery(evs) ==
    LET dates  == {DateOf(evs[i].timestamp) : i \in DOMAIN evs}
        sorted == Ascending(dates)
    IN  [k \in DOMAIN sorted |->
            [date |-> sorted[k],
             dau  |-> DistinctUsers(evs, {i \in DOMAIN evs :
                                    DateOf(evs[i].timestamp) = sorted[k]})]]

\* Variant of MauSubQuery: the month's MAU as the sum of its DAU rows.
MauSubQuery_SumDau(evs, month) ==
    LET q == DauQuery(evs)
    IN  SumRange([k \in DOMAIN q |->
                    IF YearMonth(q[k].date) = month THEN q[k].dau ELSE 0],
                 1, Len(q))

\* SELECT COUNT(DISTINCT user_id) as mau FROM events
\* WHERE strftime('%Y-%m', timestamp) = '{x.name}'
MauSubQuery(evs, month) ==
    DistinctUsers(evs, {i \in DOMAIN evs : MonthOfTs(evs[i].timestamp) = month})

\* The body of calculate_dau_mau: the DAU rows with their month, and one MAU
\* row per group of DAU rows of the same month, in ascending month order
\* (groupby sorts its keys).
DauMau(evs) ==
    LET q      == DauQuery(evs)
        dau    == [k \in DOMAIN q |->
                     [date  |-> q[k].date,
                      dau   |-> q[k].dau,
                      month |-> YearMonth(q[k].date)]]
        months == Ascending({dau[k].month : k \in DOMAIN dau})
        group(m) == {k \in DOMAIN dau : dau[k].month = m}
    IN  [dau |-> dau,
         mau |-> [k \in DOMAIN months |->
                    [month |-> months[k],
                     mau   |-> IF Cardinality(group(months[k])) > 0
                               THEN MauSubQuery(evs, months[k])
                               ELSE 0]]]

\* The dashboard's MAU query (load_metrics):
\* SELECT strftime('%Y-%m', timestamp) as month, COUNT(DISTINCT user_id) as value
\* FROM events GROUP BY month ORDER BY month
DashboardMauQuery(evs) ==
    LET group(m) == {i \in DOMAIN evs : MonthOfTs(evs[i].timestamp) = m}
        months   == Ascending({MonthOfTs(evs[i].timestamp) : i \in DOMAIN evs})
    IN  [k \in DOMAIN months |->
            [month |-> months[k],
             value |-> Cardinality({evs[i].user_id : i \in group(months[k])})]]

----------------------------------------------------------------------------
(* calculate_retention *)

\* WITH first_activity AS (SELECT user_id, MIN(DATE(timestamp)) as first_date
\*                         FROM events GROUP BY user_id)
FirstActivity(evs) ==
    {[user_id    |-> u,
      first_date |-> Min({DateOf(evs[i].timestamp) :
                            i \in {j \in DOMAIN evs : evs[j].user_id = u}})] :
        u \in {evs[i].user_id : i \in DOMAIN evs}}

\* retention_check: first_activity LEFT JOIN events ON the same user and
\* DATE(e.timestamp) = DATE(f.first_date, '+{days} days'). One row per
\* matching event (e is its index), or one row with no event (e = 0) for a
\* first_activity row that matches none.
RetentionCheck(evs, days) ==
    LET matches(f) == {i \in DOMAIN evs :
                          /\ evs[i].user_id = f.user_id
                          /\ <<DateOf(evs[i].timestamp)>>
                                = SqlDatePlusDays(f.first_date, days)}
        rows(f) == IF matches(f) = {}
                   THEN {[user_id |-> f.user_id, first_date |-> f.first_date,
                          e |-> 0, returned |-> 0]}
                   ELSE {[user_id |-> f.user_id, first_date |-> f.first_date,
                          e |-> i, returned |-> 1] : i \in matches(f)}
    IN  UNION {rows(f) : f \in FirstActivity(evs)}

\* Variant of RetentionSelect: total_users as COUNT(DISTINCT user_id), with
\* SUM(returned) still taken over every joined row.
RetentionSelect_DistinctTotal(rc) ==
    LET group(c) == {r \in rc : YearMonth(r.first_date) = c}
        total(c) == Cardinality({r.user_id : r \in group(c)})
        retained(c) == Cardinality({r \in group(c) : r.returned = 1})
    IN  {[cohort         |-> c,
          total_users    |-> total(c),
          retained_users |-> retained(c),
          retention_rate |-> RoundPct(retained(c), total(c))] :
            c \in {YearMonth(r.first_date) : r \in rc}}

\* SELECT strftime('%Y-%m', first_date) as cohort, COUNT(*) as total_users,
\*        SUM(returned) as retained_users, ROUND(100.0 * SUM(returned) / COUNT(*), 2)
\* FROM retention_check GROUP BY strftime('%Y-%m', first_date)
RetentionSelect(rc) ==
    LET group(c) == {r \in rc : YearMonth(r.first_date) = c}
        retained(c) == Cardinality({r \in group(c) : r.returned = 1})
    IN  {[cohort         |-> c,
          total_users    |-> Cardinality(group(c)),
          retained_users |-> retained(c),
          retention_rate |-> RoundPct(retained(c), Cardinality(group(c)))] :
            c \in {YearMonth(r.first_date) : r \in rc}}

\* The table calculate_retention(days) returns (its row order is not
\* specified by the query: a set of rows).
Retention(evs, days) == RetentionSelect(RetentionCheck(evs, days))

----------------------------------------------------------------------------
(* calculate_churn *)

\* WITH user_last_activity AS (SELECT user_id, MAX(DATE(timestamp)) as last_activity,
\*   julianday('2024-12-31') - julianday(MAX(DATE(timestamp))) as days_inactive
\*   FROM events GROUP BY user_id)
UserLastActivity(evs) ==
    {LET last == Max({DateOf(evs[i].timestamp) :
                        i \in {j \in DOMAIN evs : evs[j].user_id = u}})
     IN  [user_id       |-> u,
          last_activity |-> last,
          days_inactive |-> RefDate - last] :
        u \in {evs[i].user_id : i \in DOMAIN evs}}

\* Variant of IsChurned: a user inactive for exactly the threshold counts
\* as churned.
IsChurned_AtThreshold(days_inactive, inactive_days) ==
    days_inactive >= inactive_days

\* CASE WHEN l.days_inactive > {inactive_days} THEN 1 ELSE 0 END
IsChurned(days_inactive, inactive_days) ==
    days_inactive > inactive_days

\* SELECT u.plan, COUNT(*) as total_users,
\*        SUM(CASE WHEN l.days_inactive > {inactive_days} THEN 1 ELSE 0 END) as churned,
\*        ROUND(100.0 * SUM(...) / COUNT(*), 2) as churn_rate
\* FROM users u JOIN user_last_activity l ON u.user_id = l.user_id GROUP BY u.plan
\* (row order not specified by the query: a set of rows).
Churn(usrs, evs, inactive_days) ==
    LET joined == {<<i, l>> \in (DOMAIN usrs) \X UserLastActivity(evs) :
                        usrs[i].user_id = l.user_id}
        group(p) == {x \in joined : usrs[x[1]].plan = p}
        churned(p) == Cardinality({x \in group(p) :
                                     IsChurned(x[2].days_inactive, inactive_days)})
    IN  {[plan        |-> p,
          total_users |-> Cardinality(group(p)),
          churned     |-> churned(p),
          churn_rate  |-> RoundPct(churned(p), Cardinality(group(p)))] :
            p \in {usrs[x[1]].plan : x \in joined}}

----------------------------------------------------------------------------
(* feature_adoption *)

\* SELECT feature, COUNT(*) as total_uses, COUNT(DISTINCT user_id) as unique_users,
\*        ROUND(AVG(session_duration), 2) as avg_duration,
\*        COUNT(DISTINCT DATE(timestamp)) as days_active
\* FROM events WHERE feature IS NOT NULL GROUP BY feature
FeatureRows(evs) ==
    LET used == {i \in DOMAIN evs : evs[i].feature # ""}
        group(f) == {i \in used : evs[i].feature = f}
    IN  {[feature      |-> f,
          total_uses   |-> Cardinality(group(f)),
          unique_users |-> DistinctUsers(evs, group(f)),
          avg_duration |-> RoundAvg(SumDuration(evs, group(f)), Cardinality(group(f))),
          days_active  |-> Cardinality({DateOf(evs[i].timestamp) : i \in group(f)})] :
            f \in {evs[i].feature : i \in used}}

\* ORDER BY total_uses DESC: every order of the rows in which total_uses
\* never increases. The query names no second key, so SQL leaves the order
\* of rows with equal total_uses to the engine.
OrderByTotalUsesDesc(rows) ==
    {s \in [1..Cardinality(rows) -> rows] :
        /\ \A i, j \in DOMAIN s : i # j => s[i] # s[j]
        /\ \A i \in 1..(Cardinality(rows) - 1) :
                s[i].total_uses >= s[i + 1].total_uses}

\* The tables feature_adoption() may return.
FeatureAdoption(evs) == OrderByTotalUsesDesc(FeatureRows(evs))

\* The feature names of the model in ascending name order (the order of the
\* groups of GROUP BY feature).
FeatureNames == <<"a", "b", "c">>

\* Feature name f sorts before feature name g.
NameBefore(f, g) ==
    \E i, j \in DOMAIN FeatureNames :
        FeatureNames[i] = f /\ FeatureNames[j] = g /\ i < j

\* What an engine does with rows of equal total_uses: it returns them in the
\* order of their groups or in the reverse of it. The choice belongs to the
\* engine, not to the call: one connection runs the same query the same way.
TieOrders == {"ascending", "descending"}

\* The table feature_adoption() returns on an engine with tie order tie.
FeatureAdoptionOn(evs, tie) ==
    CHOOSE s \in FeatureAdoption(evs) :
        \A i, j \in DOMAIN s :
            (i < j /\ s[i].total_uses = s[j].total_uses) =>
                IF tie = "ascending"
                THEN NameBefore(s[i].feature, s[j].feature)
                ELSE NameBefore(s[j].feature, s[i].feature)

----------------------------------------------------------------------------
(* user_segmentation *)

\* Variant of EngagementLevel: a count equal to a threshold takes the
\* higher level.
EngagementLevel_AtThreshold(n) ==
    IF n >= HighThreshold THEN "High"
    ELSE IF n >= MediumThreshold THEN "Medium"
    ELSE "Low"

\* CASE WHEN COUNT(e.event_id) > 100 THEN 'High'
\*      WHEN COUNT(e.event_id) > 20 THEN 'Medium' ELSE 'Low' END
EngagementLevel(n) ==
    IF n > HighThreshold THEN "High"
    ELSE IF n > MediumThreshold THEN "Medium"
    ELSE "Low"

\* Variant of UsersLeftJoinEvents: the join has no ON condition, every
\* users row is paired with every events row.
UsersLeftJoinEvents_NoCondition(usrs, evs) ==
    IF evs = <<>> THEN {<<i, 0>> : i \in DOMAIN usrs}
    ELSE (DOMAIN usrs) \X (DOMAIN evs)

\* FROM users u LEFT JOIN events e ON u.user_id = e.user_id: pairs <<i, j>> of
\* a users row and one of its events rows, or <<i, 0>> (all e.* NULL) for a
\* users row with no event.
UsersLeftJoinEvents(usrs, evs) ==
    UNION {LET m == {j \in DOMAIN evs : evs[j].user_id = usrs[i].user_id}
           IN  IF m = {} THEN {<<i, 0>>} ELSE {<<i, j>> : j \in m} :
              i \in DOMAIN usrs}

\* SELECT u.user_id, u.plan, u.country, COUNT(e.event_id), COUNT(DISTINCT DATE(e.timestamp)),
\*        COUNT(DISTINCT e.feature), ROUND(AVG(e.session_duration), 2), CASE ... END
\* FROM users u LEFT JOIN events e ... GROUP BY u.user_id, u.plan, u.country
\* (row order not specified by the query: a set of rows). The aggregates skip
\* NULLs; AVG over no value is NULL, and ROUND(NULL, 2) is NULL.
UserSegmentation(usrs, evs) ==
    LET joined == UsersLeftJoinEvents(usrs, evs)
        key(x) == <<usrs[x[1]].user_id, usrs[x[1]].plan, usrs[x[1]].country>>
        ev(k)  == {x[2] : x \in {y \in joined : key(y) = k /\ y[2] # 0}}
        nev(k) == Cardinality({x \in joined : key(x) = k /\ x[2] # 0})
    IN  {[user_id              |-> k[1],
          plan                 |-> k[2],
          country              |-> k[3],
          total_events         |-> nev(k),
          active_days          |-> Cardinality({DateOf(evs[j].timestamp) : j \in ev(k)}),
          features_used        |-> Cardinality({evs[j].feature : j \in ev(k)} \ {""}),
          avg_session_duration |-> IF nev(k) = 0 THEN <<>>
                                   ELSE <<RoundAvg(SumDuration(evs, ev(k)), nev(k))>>,
          engagement_level     |-> EngagementLevel(nev(k))] :
            k \in {key(x) : x \in joined}}

----------------------------------------------------------------------------
(* cohort_analysis *)

\* Variant of Cohorts: the cohort of a user with events is the month of the
\* first event (the cohort of calculate_retention), not the signup month.
Cohorts_ByFirstEvent(usrs) ==
    [i \in DOMAIN usrs |->
        LET mine == {j \in DOMAIN events : events[j].user_id = usrs[i].user_id}
        IN  [user_id      |-> usrs[i].user_id,
             cohort_month |-> IF mine = {}
                              THEN MonthOfTs(usrs[i].signup_date)
                              ELSE YearMonth(Min({DateOf(events[j].timestamp) :
                                                    j \in mine}))]]

\* WITH cohorts AS (SELECT user_id, strftime('%Y-%m', signup_date) as cohort_month
\*                  FROM users): one row per users row.
Cohorts(usrs) ==
    [i \in DOMAIN usrs |->
        [user_id      |-> usrs[i].user_id,
         cohort_month |-> MonthOfTs(usrs[i].signup_date)]]

\* ORDER BY c.cohort_month, activity_month: the number of rows that come
\* before row r, by cohort month and then by activity month.
RowsBefore(rows, r) ==
    Cardinality({q \in rows :
                    \/ q.cohort_month < r.cohort_month
                    \/ /\ q.cohort_month = r.cohort_month
                       /\ q.activity_month < r.activity_month})

\* SELECT c.cohort_month, strftime('%Y-%m', e.timestamp) as activity_month,
\*        COUNT(DISTINCT e.user_id) as active_users
\* FROM cohorts c JOIN events e ON c.user_id = e.user_id
\* GROUP BY c.cohort_month, strftime('%Y-%m', e.timestamp)
\* ORDER BY c.cohort_month, activity_month
CohortAnalysis(usrs, evs) ==
    LET c == Cohorts(usrs)
        joined == {x \in (DOMAIN c) \X (DOMAIN evs) :
                        c[x[1]].user_id = evs[x[2]].user_id}
        key(x) == <<c[x[1]].cohort_month, MonthOfTs(evs[x[2]].timestamp)>>
        rows == {[cohort_month   |-> k[1],
                  activity_month |-> k[2],
                  active_users   |-> Cardinality({evs[x[2]].user_id :
                                        x \in {y \in joined : key(y) = k}})] :
                    k \in {key(x) : x \in joined}}
    IN  SortBy(rows, [r \in rows |-> RowsBefore(rows, r)])

----------------------------------------------------------------------------
(* The inputs: contents of the CSV files and arguments of the calls *)

\* Rows a users CSV file is made of: two users of one plan, a second row
\* for u2 (a duplicate user_id when both are in the file), a row with no
\* user_id and a row with no signup_date.
UserPalette ==
    << [user_id |-> "u1", signup_date |-> <<Ts(2023, 12, 15, 0)>>,
        plan |-> "Free", country |-> "US"],
       [user_id |-> "u2", signup_date |-> <<Ts(2024, 1, 1, 0)>>,
        plan |-> "Free", country |-> "IN"],
       [user_id |-> "u2", signup_date |-> <<Ts(2024, 1, 20, 0)>>,
        plan |-> "Pro", country |-> "IN"],
       [user_id |-> "", signup_date |-> <<Ts(2024, 1, 5, 0)>>,
        plan |-> "Pro", country |-> "US"],
       [user_id |-> "u4", signup_date |-> <<>>,
        plan |-> "Free", country |-> "US"] >>

\* Rows an events CSV file is made of: three events of u1 (two of them on the
\* same day, a week after the first), two of u2 (one on the first day of u1,
\* one 30 days before 2024-12-31), a row that repeats event_id 1, and rows
\* with no user_id, no event_id and no timestamp. An event is an orphan when
\* the users file does not hold its user.
EventPalette ==
    << [event_id |-> <<1>>, user_id |-> "u1", timestamp |-> <<Ts(2024, 1, 1, 0)>>,
        feature |-> "a", session_duration |-> <<10>>],
       [event_id |-> <<2>>, user_id |-> "u1", timestamp |-> <<Ts(2024, 1, 8, 9)>>,
        feature |-> "b", session_duration |-> <<20>>],
       [event_id |-> <<3>>, user_id |-> "u1", timestamp |-> <<Ts(2024, 1, 8, 17)>>,
        feature |-> "a", session_duration |-> <<>>],
       [event_id |-> <<4>>, user_id |-> "u2", timestamp |-> <<Ts(2024, 1, 1, 12)>>,
        feature |-> "", session_duration |-> <<30>>],
       [event_id |-> <<5>>, user_id |-> "u2", timestamp |-> <<Ts(2024, 12, 1, 0)>>,
        feature |-> "b", session_duration |-> <<5>>],
       [event_id |-> <<1>>, user_id |-> "u2", timestamp |-> <<Ts(2024, 2, 10, 6)>>,
        feature |-> "c", session_duration |-> <<7>>],
       [event_id |-> <<6>>, user_id |-> "", timestamp |-> <<Ts(2024, 1, 8, 3)>>,
        feature |-> "a", session_duration |-> <<1>>],
       [event_id |-> <<>>, user_id |-> "u1", timestamp |-> <<Ts(2024, 2, 10, 6)>>,
        feature |-> "c", session_duration |-> <<3>>],
       [event_id |-> <<7>>, user_id |-> "u2", timestamp |-> <<>>,
        feature |-> "c", session_duration |-> <<4>>] >>

\* The files of at most max rows made of the rows of palette, in its order.
FilesOf(palette, max) ==
    {Pick(palette, I) : I \in {J \in SUBSET (DOMAIN palette) : Cardinality(J) <= max}}

\* An events file of n events of user u1, five hours apart.
BulkEvents(n) ==
    [i \in 1..n |->
        [event_id         |-> <<1000 + i>>,
         user_id          |-> "u1",
         timestamp        |-> <<Ts(2024, 1, 1, 0) + 5 * i>>,
         feature          |-> IF i % 3 = 0 THEN "" ELSE IF i % 3 = 1 THEN "a" ELSE "b",
         session_duration |-> <<i % 7>>]]

\* Event counts on both sides of the two engagement thresholds.
BulkSizes ==
    {MediumThreshold, MediumThreshold + 1, HighThreshold, HighThreshold + 1}

UsersFiles == FilesOf(UserPalette, MaxUsers)

EventsFiles == FilesOf(EventPalette, MaxEvents) \cup {BulkEvents(n) : n \in BulkSizes}

\* The files of a caller who loads more than once, made of whole parts of
\* the palettes: the first two users rows and the last three (a second row
\* of u2 and the two rows with a missing cell); the events of u1, the events
\* of u2 (one repeats event_id 1) and the three rows with a missing cell.
SessionUsersFiles ==
    {Pick(UserPalette, UNION B) : B \in SUBSET {1..2, 3..5}}

SessionEventsFiles ==
    {Pick(EventPalette, UNION B) : B \in SUBSET {1..3, 4..6, 7..9}}

\* Values of days passed to calculate_retention.
RetentionDays == {-1, 0, DefaultDays}

\* Values of inactive_days passed to calculate_churn.
InactiveDays == {-1, DefaultInactiveDays - 1, DefaultInactiveDays}

----------------------------------------------------------------------------
(* The state machine *)

NoResult == [op |-> "none", arg |-> 0, status |-> "none", out |-> <<>>]

\* What a query method returns: the table, or the DatabaseError pandas
\* raises when the tables do not exist yet.
Returned(op, arg, out) ==
    IF loaded
    THEN [op |-> op, arg |-> arg, status |-> "ok", out |-> out]
    ELSE [op |-> op, arg |-> arg, status |-> "DatabaseError", out |-> <<>>]

\* The history variable of a run in which no history is kept, and of a run
\* in which it is kept and no table has been kept yet.
NotWatching ==
    [watching |-> FALSE, call |-> NoResult, users |-> <<>>, events |-> <<>>,
     again |-> FALSE]

NothingSeen ==
    [watching |-> TRUE, call |-> NoResult, users |-> <<>>, events |-> <<>>,
     again |-> FALSE]

\* A query method returned r: the history keeps it, with the stored tables,
\* or leaves it; once a table is kept the history only notes that the same
\* call, with the same argument, has been made again.
Remember(r) ==
    \E keep \in (IF seen = NothingSeen /\ r.status = "ok" THEN BOOLEAN ELSE {FALSE}) :
        seen' = IF keep
                THEN [watching |-> TRUE, call |-> r, users |-> users,
                      events |-> events, again |-> FALSE]
                ELSE IF /\ seen.call.status = "ok"
                        /\ r.op = seen.call.op
                        /\ r.arg = seen.call.arg
                THEN [seen EXCEPT !.again = TRUE]
                ELSE seen

\* __init__: a connection to a database (of an engine with its tie order);
\* the caller has df_users, df_events files on disk for load_data.
Connected ==
    /\ csv_users = <<>>
    /\ csv_events = <<>>
    /\ users = <<>>
    /\ events = <<>>
    /\ loaded = FALSE
    /\ tie_order \in TieOrders
    /\ result = NoResult

\* A caller with one users file and one events file.
Init ==
    /\ \E f \in UsersFiles : disk_users = {f}
    /\ \E f \in EventsFiles : disk_events = {f}
    /\ seen = NotWatching
    /\ Connected

\* A caller with several files of each kind, who may load again from other
\* files, and keeps what the calls return.
InitSession ==
    /\ disk_users = SessionUsersFiles
    /\ disk_events = SessionEventsFiles
    /\ seen = NothingSeen
    /\ Connected

\* Variant of load_data: to_sql(..., if_exists='append'), the cleaned rows
\* are added to the rows the tables hold.
load_data_Append ==
    \E users_file \in disk_users, events_file \in disk_events :
        LET u == CleanUsers(users_file)
            e == CleanEvents(events_file)
        IN  /\ csv_users' = users_file
            /\ csv_events' = events_file
            /\ users' = users \o u
            /\ events' = events \o e
            /\ loaded' = TRUE
            /\ result' = [op |-> "load_data", arg |-> 0, status |-> "ok",
                          out |-> [users |-> u, events |-> e],
                          replaced |-> loaded]
            /\ seen' = IF seen.watching THEN NothingSeen ELSE seen
            /\ UNCHANGED <<disk_users, disk_events, tie_order>>

\* load_data(csv_users, csv_events) on two files of the caller; replaced
\* tells whether to_sql found tables of an earlier load to replace.
load_data ==
    \E users_file \in disk_users, events_file \in disk_events :
        LET u == CleanUsers(users_file)
            e == CleanEvents(events_file)
        IN  /\ csv_users' = users_file
            /\ csv_events' = events_file
            /\ users' = u
            /\ events' = e
            /\ loaded' = TRUE
            /\ result' = [op |-> "load_data", arg |-> 0, status |-> "ok",
                          out |-> [users |-> u, events |-> e],
                          replaced |-> loaded]
            /\ seen' = IF seen.watching THEN NothingSeen ELSE seen
            /\ UNCHANGED <<disk_users, disk_events, tie_order>>

calculate_dau_mau ==
    /\ result' = Returned("calculate_dau_mau", 0, DauMau(events))
    /\ Remember(result')
    /\ UNCHANGED <<disk_users, disk_events, csv_users, csv_events, users, events,
                   loaded, tie_order>>

calculate_retention ==
    \E days \in RetentionDays :
        /\ result' = Returned("calculate_retention", days, Retention(events, days))
        /\ Remember(result')
        /\ UNCHANGED <<disk_users, disk_events, csv_users, csv_events, users, events,
                       loaded, tie_order>>

calculate_churn ==
    \E inactive_days \in InactiveDays :
        /\ result' = Returned("calculate_churn", inactive_days,
                              Churn(users, events, inactive_days))
        /\ Remember(result')
        /\ UNCHANGED <<disk_users, disk_events, csv_users, csv_events, users, events,
                       loaded, tie_order>>

\* Variant of feature_adoption: the order of the rows of equal total_uses
\* is chosen at each call.
feature_adoption_TieOrderPerCall ==
    \E out \in FeatureAdoption(events) :
        /\ result' = Returned("feature_adoption", 0, out)
        /\ Remember(result')
        /\ UNCHANGED <<disk_users, disk_events, csv_users, csv_events, users, events,
                       loaded, tie_order>>

feature_adoption ==
    /\ result' = Returned("feature_adoption", 0, FeatureAdoptionOn(events, tie_order))
    /\ Remember(result')
    /\ UNCHANGED <<disk_users, disk_events, csv_users, csv_events, users, events,
                   loaded, tie_order>>

user_segmentation ==
    /\ result' = Returned("user_segmentation", 0, UserSegmentation(users, events))
    /\ Remember(result')
    /\ UNCHANGED <<disk_users, disk_events, csv_users, csv_events, users, events,
                   loaded, tie_order>>

cohort_analysis ==
    /\ result' = Returned("cohort_analysis", 0, CohortAnalysis(users, events))
    /\ Remember(result')
    /\ UNCHANGED <<disk_users, disk_events, csv_users, csv_events, users, events,
                   loaded, tie_order>>

Next ==
    \/ load_data
    \/ calculate_dau_mau
    \/ calculate_retention
    \/ calculate_churn
    \/ feature_adoption
    \/ user_segmentation
    \/ cohort_analysis

Spec == Init /\ [][Next]_vars

SpecSession == InitSession /\ [][Next]_vars

----------------------------------------------------------------------------
(* What the claims are stated with: the stored snapshot, read directly *)

\* A call of op has returned a table.
Ok(op) == result.op = op /\ result.status = "ok"

\* The users that have at least one event.
EventUsers == {events[i].user_id : i \in DOMAIN events}

\* The dates on which user u has an event.
EventDates(u) ==
    {DateOf(events[i].timestamp) : i \in {j \in DOMAIN events : events[j].user_id = u}}

FirstDate(u) == Min(EventDates(u))

LastDate(u) == Max(EventDates(u))

\* The users with an event in month m.
UsersActiveIn(m) ==
    {events[i].user_id : i \in {j \in DOMAIN events : MonthOfTs(events[j].timestamp) = m}}

\* The months that have an event.
EventMonths == {MonthOfTs(events[i].timestamp) : i \in DOMAIN events}

----------------------------------------------------------------------------
(* C1 *)

\* The rows of the claim: per cohort month, the distinct users whose first
\* event date is in it, and those of them with an event dated exactly
\* first_date + days.
RetentionByUsers(days) ==
    {[cohort         |-> m,
      total_users    |-> Cardinality({u \in EventUsers : YearMonth(FirstDate(u)) = m}),
      retained_users |-> Cardinality({u \in EventUsers :
                            /\ YearMonth(FirstDate(u)) = m
                            /\ FirstDate(u) + days \in EventDates(u)})] :
        m \in {YearMonth(FirstDate(u)) : u \in EventUsers}}

\* C1: for every windowDays >= 0, calculate_retention returns, for each
\* cohort month, total_users = the number of distinct users whose earliest
\* event date is in that month and retained_users = the number of those
\* users with an event dated exactly first_date + windowDays, each user
\* counted once.
C1_RetentionCountsEachUserOnce ==
    (Ok("calculate_retention") /\ result.arg >= 0) =>
        {[cohort         |-> r.cohort,
          total_users    |-> r.total_users,
          retained_users |-> r.retained_users] : r \in result.out}
            = RetentionByUsers(result.arg)

----------------------------------------------------------------------------
(* C2 *)

\* The rows of the claim for a reference date asOf: per plan, the users of
\* the plan with an event, and those of them inactive for more than the
\* threshold at asOf.
ChurnByPlan(asOf, threshold) ==
    LET active == {i \in DOMAIN users : users[i].user_id \in EventUsers}
    IN  {[plan        |-> p,
          total_users |-> Cardinality({i \in active : users[i].plan = p}),
          churned     |-> Cardinality({i \in active :
                            /\ users[i].plan = p
                            /\ asOf - LastDate(users[i].user_id) > threshold})] :
            p \in {users[i].plan : i \in active}}

ChurnCounts(out) ==
    {[plan |-> r.plan, total_users |-> r.total_users, churned |-> r.churned] :
        r \in out}

\* Reference dates a caller may want the churn figures for.
AsOfDates == {RefDate, DaysFromCivil(2024, 6, 30)}

----------------------------------------------------------------------------
(* C3 *)

\* C3: with events non-empty, every date row of calculate_dau_mau has a
\* month row for the calendar month of its date, and its DAU is at most
\* that month's MAU.
C3_DauAtMostMau ==
    (Ok("calculate_dau_mau") /\ events # <<>>) =>
        /\ result.out.dau # <<>>
        /\ \A k \in DOMAIN result.out.dau :
              \E j \in DOMAIN result.out.mau :
                  /\ result.out.mau[j].month = YearMonth(result.out.dau[k].date)
                  /\ result.out.dau[k].dau <= result.out.mau[j].mau

\* A date with fewer active users than its month, and a date with several.
C3_Witness ==
    /\ Ok("calculate_dau_mau")
    /\ \E k \in DOMAIN result.out.dau, j \in DOMAIN result.out.mau :
            /\ result.out.mau[j].month = YearMonth(result.out.dau[k].date)
            /\ result.out.dau[k].dau < result.out.mau[j].mau
    /\ \E k \in DOMAIN result.out.dau : result.out.dau[k].dau >= 2

----------------------------------------------------------------------------
(* C4 *)

\* C4: the MAU table of calculate_dau_mau has exactly one row per month with
\* an event, in ascending month order, with the number of distinct users of
\* the month, and equals the dashboard's group-by-month query row for row.
C4_MauByMonth ==
    Ok("calculate_dau_mau") =>
        LET mau  == result.out.mau
            dash == DashboardMauQuery(events)
        IN  /\ Len(mau) = Cardinality(EventMonths)
            /\ {mau[k].month : k \in DOMAIN mau} = EventMonths
            /\ \A k \in 1..(Len(mau) - 1) : mau[k].month < mau[k + 1].month
            /\ \A k \in DOMAIN mau :
                    mau[k].mau = Cardinality(UsersActiveIn(mau[k].month))
            /\ Len(dash) = Len(mau)
            /\ \A k \in DOMAIN mau :
                    /\ dash[k].month = mau[k].month
                    /\ dash[k].value = mau[k].mau

\* Two months of events, one of them with a user active on two days, so
\* that the sum of the month's DAU rows exceeds its MAU.
C4_Witness ==
    /\ Ok("calculate_dau_mau")
    /\ Len(result.out.mau) >= 2
    /\ \E j \in DOMAIN result.out.mau :
            SumRange([k \in DOMAIN result.out.dau |->
                        IF result.out.dau[k].month = result.out.mau[j].month
                        THEN result.out.dau[k].dau ELSE 0],
                     1, Len(result.out.dau)) > result.out.mau[j].mau

----------------------------------------------------------------------------
(* C5 *)

\* C5: the rows of feature_adoption are sorted by total_uses descending, rows
\* with equal total_uses are in ascending feature-name order, and events with
\* a null feature contribute to no row.
C5_FeatureOrderWithTieBreak ==
    Ok("feature_adoption") =>
        LET out == result.out
        IN  /\ \A i, j \in DOMAIN out :
                  i < j =>
                      \/ out[i].total_uses > out[j].total_uses
                      \/ /\ out[i].total_uses = out[j].total_uses
                         /\ NameBefore(out[i].feature, out[j].feature)
            /\ \A i \in DOMAIN out :
                  /\ out[i].feature # ""
                  /\ out[i].total_uses =
                        Cardinality({j \in DOMAIN events :
                                        events[j].feature = out[i].feature})

----------------------------------------------------------------------------
(* C6 *)

\* The level the claim gives a user with n events.
LevelOfClaim(n) ==
    IF n > 100 THEN "High"
    ELSE IF 20 < n /\ n <= 100 THEN "Medium"
    ELSE "Low"

\* C6: user_segmentation returns exactly one row per user of Users, users
\* without events included; total_events is the number of the user's events
\* and engagement_level is High above 100, Medium above 20 up to 100, else Low.
C6_OneRowPerUserWithLevel ==
    Ok("user_segmentation") =>
        /\ Cardinality(result.out) = Len(users)
        /\ \A i \in DOMAIN users :
              LET n == Cardinality({j \in DOMAIN events :
                                      events[j].user_id = users[i].user_id})
                  mine == {r \in result.out : r.user_id = users[i].user_id}
              IN  /\ Cardinality(mine) = 1
                  /\ \A r \in mine :
                        /\ r.total_events = n
                        /\ r.engagement_level = LevelOfClaim(n)

\* A user with exactly 100 events, Medium, beside a user with no event, Low.
C6_Witness ==
    /\ Ok("user_segmentation")
    /\ \E r \in result.out : r.total_events = 100 /\ r.engagement_level = "Medium"
    /\ \E r \in result.out : r.total_events = 0 /\ r.engagement_level = "Low"

----------------------------------------------------------------------------
(* C7 *)

\* C7: the user_segmentation row of a user with no events has total_events,
\* active_days, features_used and avg_session_duration all equal to 0, the
\* average being the number 0 and not NULL.
C7_ZeroAggregatesWithoutEvents ==
    Ok("user_segmentation") =>
        \A i \in DOMAIN users :
            users[i].user_id \notin EventUsers =>
                \A r \in {x \in result.out : x.user_id = users[i].user_id} :
                    /\ r.total_events = 0
                    /\ r.active_days = 0
                    /\ r.features_used = 0
                    /\ r.avg_session_duration = <<0>>

----------------------------------------------------------------------------
(* C8 *)

\* The users of signup month c with an event in month m.
CohortActive(c, m) ==
    {users[i].user_id :
        i \in {k \in DOMAIN users :
                /\ MonthOfTs(users[k].signup_date) = c
                /\ users[k].user_id \in UsersActiveIn(m)}}

\* C8: cohort_analysis returns exactly one row per (signup month, activity
\* month) pair with at least one active user, active_users being the number
\* of distinct such users, ordered by cohort then activity month ascending.
C8_CohortBySignupMonth ==
    Ok("cohort_analysis") =>
        LET out   == result.out
            pairs == {p \in {MonthOfTs(users[i].signup_date) : i \in DOMAIN users}
                                \X EventMonths : CohortActive(p[1], p[2]) # {}}
        IN  /\ Len(out) = Cardinality(pairs)
            /\ {<<out[k].cohort_month, out[k].activity_month>> : k \in DOMAIN out} = pairs
            /\ \A k \in DOMAIN out :
                  /\ out[k].active_users =
                        Cardinality(CohortActive(out[k].cohort_month, out[k].activity_month))
                  /\ out[k].active_users >= 1
            /\ \A k \in 1..(Len(out) - 1) :
                  \/ out[k].cohort_month < out[k + 1].cohort_month
                  \/ /\ out[k].cohort_month = out[k + 1].cohort_month
                     /\ out[k].activity_month < out[k + 1].activity_month

\* Two rows or more, one of a user whose signup month is not the month of
\* the user's first event.
C8_Witness ==
    /\ Ok("cohort_analysis")
    /\ Len(result.out) >= 2
    /\ \E i \in DOMAIN users :
            /\ users[i].user_id \in EventUsers
            /\ MonthOfTs(users[i].signup_date) # YearMonth(FirstDate(users[i].user_id))
            /\ \E k \in DOMAIN result.out :
                    result.out[k].cohort_month = MonthOfTs(users[i].signup_date)

----------------------------------------------------------------------------
(* C9 *)

\* C9: for a non-negative window or threshold, every row of
\* calculate_retention has 1 <= total_users, 0 <= retained_users <=
\* total_users and a rate within [0, 100]; every row of calculate_churn has
\* the same for churned and churn_rate and is of a plan with a user that has
\* an event; with no events neither returns a row.
C9_CountsAndRatesInRange ==
    /\ (Ok("calculate_retention") /\ result.arg >= 0) =>
            /\ \A r \in result.out :
                  /\ r.total_users >= 1
                  /\ 0 <= r.retained_users /\ r.retained_users <= r.total_users
                  /\ 0 <= r.retention_rate /\ r.retention_rate <= 100 * 100
            /\ events = <<>> => result.out = {}
    /\ (Ok("calculate_churn") /\ result.arg >= 0) =>
            /\ \A r \in result.out :
                  /\ r.total_users >= 1
                  /\ 0 <= r.churned /\ r.churned <= r.total_users
                  /\ 0 <= r.churn_rate /\ r.churn_rate <= 100 * 100
                  /\ \E i \in DOMAIN users :
                        users[i].plan = r.plan /\ users[i].user_id \in EventUsers
            /\ events = <<>> => result.out = {}

\* A retention row with some but not all users retained.
C9_Witness ==
    /\ Ok("calculate_retention")
    /\ result.arg >= 0
    /\ \E r \in result.out :
            /\ 0 < r.retained_users /\ r.retained_users < r.total_users
            /\ 0 < r.retention_rate /\ r.retention_rate < 100 * 100

----------------------------------------------------------------------------
(* C10 *)

\* C10: calculate_retention with negative days, or calculate_churn with
\* negative inactive_days, fails with InvalidParameter and returns no table
\* (stated for a loaded database that holds events).
C10_NegativeArgumentRejected ==
    (/\ loaded
     /\ events # <<>>
     /\ result.op \in {"calculate_retention", "calculate_churn"}
     /\ result.arg < 0) =>
        result.status = "InvalidParameter"

----------------------------------------------------------------------------
(* C11 *)

\* The user_id values of the stored users.
KnownUsers == {users[i].user_id : i \in DOMAIN users}

\* The stored events whose user_id matches no row of users.
OrphanEvents == {i \in DOMAIN events : events[i].user_id \notin KnownUsers}

\* The stored events without the orphan events.
EventsOfKnownUsers == Pick(events, (DOMAIN events) \ OrphanEvents)

\* The rows of a table returned as a sequence.
Rows(s) == {s[i] : i \in DOMAIN s}

\* The figure of column col in the row of rows whose column key is k, 0 when
\* there is no such row.
Counted(rows, key, k, col) ==
    LET S == {r \in rows : r[key] = k}
    IN  IF S = {} THEN 0 ELSE (CHOOSE r \in S : TRUE)[col]

\* The first month of activity of the user of event i, over all the events.
FirstMonthOfUserOf(i) == YearMonth(FirstDate(events[i].user_id))

\* C11: orphan events make no call fail and change no output of
\* calculate_churn, user_segmentation and cohort_analysis (each returns what
\* it returns on the snapshot without the orphan events), while the user of
\* an orphan event is counted by calculate_dau_mau (the DAU of the day and the
\* MAU of the month), feature_adoption (the row of the feature) and
\* calculate_retention (the cohort of the user's first month): each of these
\* figures is greater than on the snapshot without the orphan events.
C11_OrphansOnlyInEventsOnlyMetrics ==
    /\ (loaded /\ result.op \notin {"none", "load_data"}) => result.status = "ok"
    /\ Ok("calculate_churn") =>
            result.out = Churn(users, EventsOfKnownUsers, result.arg)
    /\ Ok("user_segmentation") =>
            result.out = UserSegmentation(users, EventsOfKnownUsers)
    /\ Ok("cohort_analysis") =>
            result.out = CohortAnalysis(users, EventsOfKnownUsers)
    /\ Ok("calculate_dau_mau") =>
            LET without == DauMau(EventsOfKnownUsers)
            IN  \A i \in OrphanEvents :
                    LET d == DateOf(events[i].timestamp)
                        m == MonthOfTs(events[i].timestamp)
                    IN  /\ Counted(Rows(result.out.dau), "date", d, "dau")
                              > Counted(Rows(without.dau), "date", d, "dau")
                        /\ Counted(Rows(result.out.mau), "month", m, "mau")
                              > Counted(Rows(without.mau), "month", m, "mau")
    /\ Ok("feature_adoption") =>
            LET without == FeatureRows(EventsOfKnownUsers)
            IN  \A i \in OrphanEvents :
                    events[i].feature # "" =>
                        /\ Counted(Rows(result.out), "feature", events[i].feature,
                                   "unique_users")
                              > Counted(without, "feature", events[i].feature,
                                        "unique_users")
                        /\ Counted(Rows(result.out), "feature", events[i].feature,
                                   "total_uses")
                              > Counted(without, "feature", events[i].feature,
                                        "total_uses")
    /\ Ok("calculate_retention") =>
            LET without == Retention(EventsOfKnownUsers, result.arg)
            IN  \A i \in OrphanEvents :
                    Counted(result.out, "cohort", FirstMonthOfUserOf(i), "total_users")
                      > Counted(without, "cohort", FirstMonthOfUserOf(i), "total_users")

\* user_segmentation has returned on a snapshot with an orphan event and a
\* user who has events.
C11_Witness ==
    /\ Ok("user_segmentation")
    /\ OrphanEvents # {}
    /\ \E r \in result.out : r.total_events > 0

\* calculate_dau_mau has returned on a snapshot in which an orphan event and
\* an event of a stored user fall on the same day.
C11_WitnessCounted ==
    /\ Ok("calculate_dau_mau")
    /\ \E i \in OrphanEvents, j \in (DOMAIN events) \ OrphanEvents :
            DateOf(events[i].timestamp) = DateOf(events[j].timestamp)

----------------------------------------------------------------------------
(* C12 *)

\* The functions of the engine that read the stored tables.
EngineFunctions ==
    {"calculate_dau_mau", "calculate_retention", "calculate_churn",
     "feature_adoption", "user_segmentation", "cohort_analysis"}

----------------------------------------------------------------------------
(* C13 *)

\* The rows of the users file that load_data keeps: user_id and signup_date
\* present, and no earlier row of the file with the same user_id.
KeptUsersRows ==
    {k \in DOMAIN csv_users :
        /\ csv_users[k].user_id # ""
        /\ csv_users[k].signup_date # <<>>
        /\ \A j \in 1..(k - 1) : csv_users[j].user_id # csv_users[k].user_id}

\* The rows of the events file that load_data keeps: event_id, user_id and
\* timestamp present, and no earlier row of the file with the same event_id.
KeptEventsRows ==
    {k \in DOMAIN csv_events :
        /\ csv_events[k].event_id # <<>>
        /\ csv_events[k].user_id # ""
        /\ csv_events[k].timestamp # <<>>
        /\ \A j \in 1..(k - 1) : csv_events[j].event_id # csv_events[k].event_id}

\* C13: after any sequence of load_data calls the stored tables hold exactly
\* the cleaned rows of the files of the last load (nothing of an earlier load
\* remains); user_id is unique and present, signup_date is present in users;
\* event_id is unique, event_id, user_id and timestamp are present in events;
\* every stored session_duration is a number, 0 where the file had none.
C13_TablesAreLastCleanLoad ==
    loaded =>
        /\ users = CleanUsers(csv_users)
        /\ events = CleanEvents(csv_events)
        /\ Len(users) = Cardinality(KeptUsersRows)
        /\ Len(events) = Cardinality(KeptEventsRows)
        /\ \A i, j \in DOMAIN users : users[i].user_id = users[j].user_id => i = j
        /\ \A i \in DOMAIN users :
                /\ users[i].user_id # ""
                /\ \E k \in KeptUsersRows :
                        /\ csv_users[k].user_id = users[i].user_id
                        /\ csv_users[k].signup_date = <<users[i].signup_date>>
                        /\ csv_users[k].plan = users[i].plan
                        /\ csv_users[k].country = users[i].country
        /\ \A i, j \in DOMAIN events : events[i].event_id = events[j].event_id => i = j
        /\ \A i \in DOMAIN events :
                /\ events[i].user_id # ""
                /\ events[i].session_duration \in Int
                /\ \E k \in KeptEventsRows :
                        /\ csv_events[k].event_id = <<events[i].event_id>>
                        /\ csv_events[k].user_id = events[i].user_id
                        /\ csv_events[k].timestamp = <<events[i].timestamp>>
                        /\ csv_events[k].feature = events[i].feature
                        /\ \/ csv_events[k].session_duration =
                                  <<events[i].session_duration>>
                           \/ /\ csv_events[k].session_duration = <<>>
                              /\ events[i].session_duration = 0

\* A load has replaced the tables of an earlier load, from files with rows
\* that cleaning drops and an event with no session_duration.
C13_Witness ==
    /\ result.op = "load_data"
    /\ result.replaced
    /\ Len(users) > 0
    /\ Len(users) < Len(csv_users)
    /\ Len(events) < Len(csv_events)
    /\ \E i \in DOMAIN events, k \in DOMAIN csv_events :
            /\ csv_events[k].event_id = <<events[i].event_id>>
            /\ csv_events[k].session_duration = <<>>
            /\ events[i].session_duration = 0

====
